---- MODULE Spec2Model ----
(***************************************************************************)
(* Conversation orchestration and highlight extraction of the Fitbit       *)
(* assistant: ConversationOrchestrator (core/conversation_orchestrator.py),*)
(* HighlightsExtractor (memory/highlights.py), the Conversation and        *)
(* Highlight tables and HighlightSchema (memory/database.py) and the       *)
(* ClaudeClient (api/claude_client.py).                                    *)
(***************************************************************************)
EXTENDS Integers, Sequences, FiniteSets, TLC

VARIABLES
    conversations,  \* table conversations: row id -> row (ids are 1..Len)
    highlights,     \* table highlights: row id -> row
    clock,          \* datetime.now(): one tick per public call
    pc,             \* node of the workflow the chat call in flight is at
    state,          \* ConversationState of the chat call in flight
    result,         \* what the last chat call returned
    turn,           \* log of what the steps of the last chat call did
    end_result,     \* what the last end_conversation call returned
    batch,          \* the batch job in flight: conversations left, statistics
    transcript,     \* the turns of the dialogue loop
    stop,           \* the last continue/stop decision of the dialogue loop
    layers,         \* the stored memory layers a context-assembly call reads
    ctx_out,        \* what the last context-assembly or client call returned
    race            \* the chat turns that run _update_conversation concurrently

\* the variables of the dialogue loop
loop_vars == <<transcript, stop>>

\* the variables of the context assembly and of the concurrent turns
side_vars == <<layers, ctx_out, race>>

vars == <<conversations, highlights, clock, pc, state, result, turn,
         end_result, batch, loop_vars, side_vars>>

\* ------------------------------------------------------------------ bounds
\* number of public calls (chat, end_conversation, process_conversation, batch)
MaxClock == 3

\* number of chat calls of SpecTurn
MaxTurnCalls == 1

\* ------------------------------------------------------------ Python values
None == "<None>"
\* NULL of a DateTime column
NoTime == 0

IdStrings == <<"1", "2", "3", "4", "5", "6", "7", "8", "9">>

\* str(n) of a row id
Str(n) == IdStrings[n]

\* whether int(s) returns (it raises ValueError otherwise)
IsNumeric(s) == \E n \in DOMAIN IdStrings : IdStrings[n] = s

\* int(s)
ToInt(s) == CHOOSE n \in DOMAIN IdStrings : IdStrings[n] = s

\* the characters of the strings the code applies strip/lower/split/in to
Chars(s) ==
    CASE s = "hi" -> <<"h", "i">>
      [] s = "hello" -> <<"h", "e", "l", "l", "o">>
      [] s = "hey" -> <<"h", "e", "y">>
      [] s = "good morning" -> <<"g", "o", "o", "d", " ", "m", "o", "r", "n", "i", "n", "g">>
      [] s = "good evening" -> <<"g", "o", "o", "d", " ", "e", "v", "e", "n", "i", "n", "g">>
      [] s = "thanks" -> <<"t", "h", "a", "n", "k", "s">>
      [] s = "thank you" -> <<"t", "h", "a", "n", "k", " ", "y", "o", "u">>
      [] s = "bye" -> <<"b", "y", "e">>
      [] s = "goodbye" -> <<"g", "o", "o", "d", "b", "y", "e">>
      [] s = " Bye " -> <<" ", "B", "y", "e", " ">>
      [] s = "I am allergic to dairy" -> <<"I", " ", "a", "m", " ", "a", "l", "l", "e", "r", "g", "i", "c", " ", "t", "o", " ", "d", "a", "i", "r", "y">>
      [] s = "Good morning everybody" -> <<"G", "o", "o", "d", " ", "m", "o", "r", "n", "i", "n", "g", " ", "e", "v", "e", "r", "y", "b", "o", "d", "y">>
      [] s = "GOODBYE" -> <<"G", "O", "O", "D", "B", "Y", "E">>
      [] s = "Goodbye for now" -> <<"G", "o", "o", "d", "b", "y", "e", " ", "f", "o", "r", " ", "n", "o", "w">>
      [] s = "" -> <<>>
      [] s = "Prefers morning walks" -> <<"P", "r", "e", "f", "e", "r", "s", " ", "m", "o", "r", "n", "i", "n", "g", " ", "w", "a", "l", "k", "s">>
      [] s = " likes hiking " -> <<" ", "l", "i", "k", "e", "s", " ", "h", "i", "k", "i", "n", "g", " ">>
      [] s = "   " -> <<" ", " ", " ">>

UpperCase == <<"A", "B", "C", "D", "E", "F", "G", "H", "I", "J", "K", "L", "M",
               "N", "O", "P", "Q", "R", "S", "T", "U", "V", "W", "X", "Y", "Z">>

LowerCase == <<"a", "b", "c", "d", "e", "f", "g", "h", "i", "j", "k", "l", "m",
               "n", "o", "p", "q", "r", "s", "t", "u", "v", "w", "x", "y", "z">>

\* str.lower() of one character
LowerChar(c) ==
    IF \E i \in DOMAIN UpperCase : UpperCase[i] = c
    THEN LowerCase[CHOOSE i \in DOMAIN UpperCase : UpperCase[i] = c]
    ELSE c

\* str.lower()
Lower(cs) == [i \in 1..Len(cs) |-> LowerChar(cs[i])]

IsSpace(c) == c \in {" ", "\n", "\t"}

RECURSIVE LStrip(_)
LStrip(cs) ==
    IF cs = <<>> THEN cs
    ELSE IF IsSpace(Head(cs)) THEN LStrip(Tail(cs)) ELSE cs

RECURSIVE RStrip(_)
RStrip(cs) ==
    IF cs = <<>> THEN cs
    ELSE IF IsSpace(cs[Len(cs)]) THEN RStrip(SubSeq(cs, 1, Len(cs) - 1)) ELSE cs

\* str.strip()
Strip(cs) == RStrip(LStrip(cs))

\* len(str.split()): the number of maximal runs of non-blank characters
WordCount(cs) ==
    Cardinality({i \in 1..Len(cs) :
        /\ ~IsSpace(cs[i])
        /\ (i = 1 \/ IsSpace(cs[i - 1]))})

\* sub in cs
Contains(cs, sub) ==
    \E i \in 0..(Len(cs) - Len(sub)) : SubSeq(cs, i + 1, i + Len(sub)) = sub

\* ------------------------------------------------------- memory/database.py
\* JSON values carry their Python type: t is "dict", "list", "str" or "null"
JDict(f) == [t |-> "dict", v |-> f]

JStr(s) == [t |-> "str", v |-> s]

JNull == [t |-> "null", v |-> None]

\* the empty dict {}
EmptyDict == [k \in {} |-> None]

STRUCTURED_FIELDS ==
    {"allergies", "work_schedule", "exercise_preferences", "health_concerns",
     "sleep_schedule", "nutrition_preferences", "stress_sources", "medications",
     "family_health", "goals_mentioned", "communication_style",
     "motivation_factors"}

\* variant: a validation that accepts any dict
validate_structured_data_any_key(data) ==
    IF data.t # "dict" THEN "False" ELSE "True"

\* HighlightSchema.validate_structured_data: "False" for a value that is no dict,
\* "ValueError" for a dict with a key outside the vocabulary, "True" otherwise
validate_structured_data(data) ==
    IF data.t # "dict" THEN "False"
    ELSE IF DOMAIN data.v \ STRUCTURED_FIELDS # {} THEN "ValueError"
    ELSE "True"

\* Highlight.__init__: whether the constructor raises ValueError
HighlightInitRaises(structured_data) ==
    /\ structured_data.t # "null"
    /\ validate_structured_data(structured_data) = "ValueError"

\* a row of table highlights
HighlightRow(user_id, conversation_id, structured_data, unstructured_notes, now) ==
    [user_id |-> user_id, conversation_id |-> conversation_id,
     structured_data |-> structured_data,
     unstructured_notes |-> unstructured_notes, extracted_at |-> now]

\* a row of table conversations
ConversationRow(user_id, messages, status, now) ==
    [user_id |-> user_id, messages |-> messages, status |-> status,
     created_at |-> now, ended_at |-> NoTime]

\* session.query(Conversation).filter(Conversation.id == id).first()
FindConversation(convs, id) == IF id \in 1..Len(convs) THEN id ELSE 0

\* the rows of session.query(Highlight).filter(conversation_id == id)
HighlightsOf(hls, conversation_id) ==
    {h \in 1..Len(hls) : hls[h].conversation_id = conversation_id}

\* ----------------------------------------------------- memory/highlights.py
greeting_phrases ==
    {"hi", "hello", "hey", "good morning", "good evening", "thanks",
     "thank you", "bye", "goodbye"}

\* total_user_content: " " + content of every message with role user
RECURSIVE TotalUserContent(_)
TotalUserContent(messages) ==
    IF messages = <<>> THEN <<>>
    ELSE LET m == Head(messages)
         IN  (IF m.role = "user" THEN <<" ">> \o Chars(m.content) ELSE <<>>)
             \o TotalUserContent(Tail(messages))

\* the length threshold of the eligibility gate
MinUserContent == 20

\* the word threshold of the greetings test
MaxGreetingWords == 3

\* variant: the gate without the test for an existing Highlight
should_extract_highlights_no_existing(convs, hls, conversation_id) ==
    IF FindConversation(convs, conversation_id) = 0 THEN FALSE
    ELSE IF convs[conversation_id].messages = <<>> THEN FALSE
    ELSE LET total == TotalUserContent(convs[conversation_id].messages)
             content_lower == Strip(Lower(total))
         IN  IF Len(Strip(total)) < MinUserContent THEN FALSE
             ELSE IF /\ WordCount(content_lower) <= MaxGreetingWords
                     /\ \E p \in greeting_phrases : Contains(content_lower, Chars(p))
                  THEN FALSE
                  ELSE TRUE

\* HighlightsExtractor.should_extract_highlights
should_extract_highlights(convs, hls, conversation_id) ==
    IF HighlightsOf(hls, conversation_id) # {} THEN FALSE
    ELSE IF FindConversation(convs, conversation_id) = 0 THEN FALSE
    ELSE IF convs[conversation_id].messages = <<>> THEN FALSE
    ELSE LET total == TotalUserContent(convs[conversation_id].messages)
             content_lower == Strip(Lower(total))
         IN  IF Len(Strip(total)) < MinUserContent THEN FALSE
             ELSE IF /\ WordCount(content_lower) <= MaxGreetingWords
                     /\ \E p \in greeting_phrases : Contains(content_lower, Chars(p))
                  THEN FALSE
                  ELSE TRUE

\* the markdown fences (three backquotes) a response may be wrapped in
FenceJson == "<fence>json"

Fence == "<fence>"

\* what the provider answers to the extraction prompt: an LLMError, or a text
\* made of an opening fence, a body and a closing fence
ExtractionText(open, body, close) ==
    [raised |-> None, open |-> open, body |-> body, close |-> close]

ExtractionError ==
    [raised |-> "LLMError", open |-> "", body |-> [t |-> "garbage", v |-> <<>>],
     close |-> ""]

\* lines 197-208: strip, drop a leading json fence and a trailing fence, strip,
\* json.loads; t = "JSONDecodeError" when the cleaned text is no JSON
ParseResponse(out) ==
    LET rest == IF out.open = FenceJson THEN "" ELSE out.open
    IN  IF rest # "" \/ out.body.t = "garbage"
        THEN [t |-> "JSONDecodeError", v |-> <<>>]
        ELSE out.body

\* x in highlights, for a parsed dict (its keys) or list (its elements)
JsonHas(j, x) ==
    IF j.t = "dict" THEN x \in DOMAIN j.v
    ELSE \E i \in DOMAIN j.v : j.v[i] = x

\* lines 223-227: the placeholders "null", "" and "None" become None
CleanNulls(f) ==
    [k \in DOMAIN f |-> IF f[k] \in {"null", "", "None"} THEN None ELSE f[k]]

\* the dict _extract_with_llm returns
Extracted(structured_data, unstructured_notes) ==
    [t |-> "dict", structured_data |-> structured_data,
     unstructured_notes |-> unstructured_notes]

\* the None _extract_with_llm returns
NoHighlights == [t |-> "none", structured_data |-> JNull, unstructured_notes |-> ""]

\* HighlightsExtractor._extract_with_llm on the provider's answer
_extract_with_llm(out) ==
    IF out.raised # None THEN NoHighlights
    ELSE LET j == ParseResponse(out)
         IN  IF j.t = "JSONDecodeError" THEN NoHighlights
             ELSE IF j.t \notin {"dict", "list"} THEN NoHighlights
             ELSE IF ~JsonHas(j, "structured_data") \/ ~JsonHas(j, "unstructured_notes")
                  THEN NoHighlights
             \* indexing a list with a str raises TypeError
             ELSE IF j.t = "list" THEN NoHighlights
             ELSE IF validate_structured_data(j.v.structured_data) = "ValueError"
                  THEN NoHighlights
             \* .items() of a value that is no dict raises AttributeError
             ELSE IF j.v.structured_data.t # "dict" THEN NoHighlights
             ELSE Extracted(JDict(CleanNulls(j.v.structured_data.v)),
                            j.v.unstructured_notes)

\* HighlightsExtractor.store_highlights: the table after the call and the
\* value returned; db_ok is whether the session's statements succeed
store_highlights(hls, conversation_id, user_id, h, now, db_ok) ==
    LET existing == HighlightsOf(hls, conversation_id)
    IN  IF ~db_ok THEN [highlights |-> hls, ret |-> FALSE]
        ELSE IF existing # {}
        THEN LET e == CHOOSE x \in existing : \A y \in existing : x <= y
             IN  [highlights |->
                     [hls EXCEPT ![e].structured_data = h.structured_data,
                                 ![e].unstructured_notes = h.unstructured_notes,
                                 ![e].extracted_at = now],
                  ret |-> TRUE]
        ELSE IF HighlightInitRaises(h.structured_data)
        THEN [highlights |-> hls, ret |-> FALSE]
        ELSE [highlights |->
                 Append(hls, HighlightRow(user_id, conversation_id,
                                          h.structured_data,
                                          h.unstructured_notes, now)),
              ret |-> TRUE]

\* HighlightsExtractor.extract_highlights_from_conversation
extract_highlights_from_conversation(convs, hls, conversation_id, out) ==
    IF ~should_extract_highlights(convs, hls, conversation_id) THEN NoHighlights
    ELSE IF FindConversation(convs, conversation_id) = 0 THEN NoHighlights
    ELSE IF convs[conversation_id].messages = <<>> THEN NoHighlights
    ELSE _extract_with_llm(out)

\* HighlightsExtractor.process_conversation: the table after the call, the
\* value returned ("True", "False", or "raise" when a read of the session
\* raises), and whether the gate and the model were reached.
\* env.db is "ok", "read_fail" or "write_fail"; env.out the provider's answer
process_conversation(convs, hls, conversation_id, now, env) ==
    IF env.db = "read_fail"
    THEN [highlights |-> hls, ret |-> "raise", gate |-> FALSE, llm |-> FALSE]
    ELSE IF FindConversation(convs, conversation_id) = 0
    THEN [highlights |-> hls, ret |-> "False", gate |-> FALSE, llm |-> FALSE]
    ELSE LET eligible == should_extract_highlights(convs, hls, conversation_id)
             h == extract_highlights_from_conversation(convs, hls,
                                                       conversation_id, env.out)
             stored == store_highlights(hls, conversation_id,
                                        convs[conversation_id].user_id, h, now,
                                        env.db = "ok")
         IN  IF h.t = "none"
             THEN [highlights |-> hls, ret |-> "False", gate |-> TRUE,
                   llm |-> eligible]
             ELSE [highlights |-> stored.highlights,
                   ret |-> IF stored.ret THEN "True" ELSE "False",
                   gate |-> TRUE, llm |-> TRUE]

\* ------------------------------------------------------ api/claude_client.py
LLMErrorClasses == {"LLMError", "LLMRateLimitError", "LLMUnavailableError"}

\* what the provider does with a chat request
Provider(kind, text) == [kind |-> kind, text |-> text]

ModelTexts == {"You slept 7.2 hours last night."}

ProviderBehaviours ==
    {Provider("content", t) : t \in ModelTexts}
    \cup {Provider(k, "") : k \in {"empty_content", "rate_limit", "connection"}}

ClaudeChatSystemAsTurn(user_message, conversation_history, system_prompt, provider) ==
    LET messages ==
            (IF system_prompt \notin {"", None}
             THEN <<[role |-> "system", content |-> system_prompt]>> ELSE <<>>)
            \o conversation_history
            \o <<[role |-> "user", content |-> user_message]>>
        sent == [messages |-> messages, system |-> None]
    IN  [raised |-> IF provider.kind = "content" THEN None ELSE "LLMError",
         value |-> provider.text, message |-> "", sent |-> sent]

\* ClaudeClient.chat: the messages sent, and the text returned or the error raised
ClaudeChat(user_message, conversation_history, system_prompt, provider) ==
    LET messages ==
            conversation_history \o <<[role |-> "user", content |-> user_message]>>
        sent == [messages |-> messages,
                 system |-> IF system_prompt \notin {"", None} THEN system_prompt ELSE None]
        Raise(class, message) ==
            [raised |-> class, value |-> "", message |-> message, sent |-> sent]
    IN  CASE provider.kind = "content" ->
                [raised |-> None, value |-> provider.text, message |-> "",
                 sent |-> sent]
          [] provider.kind = "empty_content" ->
                Raise("LLMError",
                      "Unexpected error with Claude: Empty response from Claude")
          [] provider.kind = "rate_limit" ->
                Raise("LLMRateLimitError", "Claude rate limit exceeded")
          [] provider.kind = "connection" ->
                Raise("LLMUnavailableError", "Cannot connect to Claude API")
          [] provider.kind = "api_error" ->
                Raise("LLMError", "Claude API error")
          [] OTHER ->
                Raise("LLMError", "Unexpected error with Claude")

\* ------------------------------------------ core/conversation_orchestrator.py
ApologyLLM ==
    "I'm sorry, I'm having trouble processing your request right now. Please try again in a moment."

ApologyUnexpected ==
    "I apologize, but I encountered an unexpected error. Please try again."

ApologyWorkflow ==
    "I apologize, but I'm experiencing technical difficulties. Please try again."

FallbackPrompt == "You are a helpful health assistant for Fitbit users."

\* chat, lines 301-311: the initial ConversationState
InitialState(user_id, user_message, conversation_id, conversation_history) ==
    [user_id |-> user_id, user_message |-> user_message,
     conversation_history |-> conversation_history,
     conversation_id |-> conversation_id, assembled_context |-> "{}",
     system_prompt |-> "", response |-> "", error |-> None,
     should_update_memory |-> FALSE]

\* no chat call in flight
NoState == InitialState(None, None, None, <<>>)

NoResult ==
    [response |-> None, conversation_id |-> None, error |-> None,
     user_id |-> None]

NoEnd == [conversation_id |-> None, returned |-> None, analysed |-> FALSE]

\* no memory layers drawn, no value returned, no concurrent turn
NoLayers == [highlights |-> <<>>]

NoOut == [op |-> None]

NoRace == <<>>

NoBatch ==
    [queue |-> {},
     results |-> [processed |-> 0, extracted |-> 0, errors |-> 0, skipped |-> 0]]

\* the log of a chat call that has run no step yet
NewTurn ==
    [input_id |-> None, nodes |-> <<>>, raised |-> FALSE,
     load_failed |-> FALSE, build_failed |-> FALSE,
     model_failed |-> FALSE, generated |-> None, sent |-> <<>>,
     persist |-> "none", target |-> 0, created |-> 0, stored |-> FALSE,
     called |-> FALSE, gate |-> FALSE, llm |-> FALSE, returned |-> FALSE]

Logged(node) == [turn EXCEPT !.nodes = Append(@, node)]

\* Python truth of an optional str
Truthy(s) == s \notin {None, ""}

UserIds == {"1", "2", "abc"}

UserMessages == {" Bye ", "I am allergic to dairy", "Good morning everybody"}

\* row id n exists after n chat calls at the earliest
ConversationIds == {None, "abc"} \cup {Str(n) : n \in 1..(MaxClock - 1)}

SampleHistory ==
    <<[role |-> "user", content |-> "How did I sleep?"],
      [role |-> "assistant", content |-> "You slept 7.2 hours last night."]>>

Histories == {<<>>, SampleHistory}

\* the answers of the provider to an extraction prompt
SDUnknown == JDict([allergies |-> "dairy", favorite_color |-> "blue"])

SDValid == JDict([allergies |-> "dairy", goals_mentioned |-> "null",
                  sleep_schedule |-> ""])

SDOther == JDict([allergies |-> "None", goals_mentioned |-> "run 5k"])

ValidBody ==
    JDict([structured_data |-> SDValid,
           unstructured_notes |-> "Prefers morning walks"])

ExtractionBodies ==
    {[t |-> "garbage", v |-> <<>>],
     [t |-> "list", v |-> <<"structured_data", "unstructured_notes">>],
     JDict([structured_data |-> SDValid]),
     JDict([structured_data |-> JStr("nothing mentioned"),
            unstructured_notes |-> "No context"]),
     JDict([structured_data |-> JNull, unstructured_notes |-> "No context"]),
     JDict([structured_data |-> SDUnknown,
            unstructured_notes |-> "Likes blue"]),
     ValidBody,
     JDict([structured_data |-> SDOther, unstructured_notes |-> ""]),
     JDict([structured_data |-> JDict(EmptyDict), unstructured_notes |-> ""])}

ExtractionOutputs ==
    {ExtractionError}
    \cup {ExtractionText("", b, "") : b \in ExtractionBodies}
    \cup {ExtractionText(FenceJson, ValidBody, Fence),
          ExtractionText(Fence, ValidBody, Fence)}

\* the environment of one process_conversation call
Envs == [db : {"ok", "read_fail", "write_fail"}, out : ExtractionOutputs]

\* chat(user_id, user_message, conversation_id, conversation_history), line 283
ChatStart(user_id, user_message, conversation_id, conversation_history) ==
    /\ pc = "idle"
    /\ clock < MaxClock
    /\ clock' = clock + 1
    /\ state' = InitialState(user_id, user_message, conversation_id,
                             conversation_history)
    /\ turn' = [NewTurn EXCEPT !.input_id = conversation_id]
    /\ result' = NoResult
    /\ end_result' = NoEnd
    /\ pc' = "load_context"
    /\ UNCHANGED <<conversations, highlights, batch, loop_vars, side_vars>>

\* variant: a failure of the assembler leaves the workflow as an exception
LoadFullContextRaises(ok) ==
    /\ pc = "load_context"
    /\ IF ~IsNumeric(state.user_id) \/ ~ok
       THEN /\ pc' = "raised"
            /\ state' = state
            /\ turn' = [Logged("load_context") EXCEPT !.raised = TRUE]
       ELSE /\ pc' = "build_system_prompt"
            /\ state' = [state EXCEPT !.assembled_context = "assembled"]
            /\ turn' = Logged("load_context")
    /\ UNCHANGED <<conversations, highlights, clock, result, end_result, batch,
                   loop_vars, side_vars>>

\* _load_full_context: int(user_id) is outside the try, so a ValueError leaves
\* the workflow; a failure of the assembler is replaced by the minimal context
LoadFullContext(ok) ==
    /\ pc = "load_context"
    /\ IF ~IsNumeric(state.user_id)
       THEN /\ pc' = "raised"
            /\ state' = state
            /\ turn' = [Logged("load_context") EXCEPT !.raised = TRUE]
       ELSE /\ pc' = "build_system_prompt"
            /\ state' =
                 IF ok THEN [state EXCEPT !.assembled_context = "assembled"]
                 ELSE [state EXCEPT !.error = "Failed to load user context",
                                    !.assembled_context = "minimal"]
            /\ turn' = [Logged("load_context") EXCEPT !.load_failed = ~ok]
    /\ UNCHANGED <<conversations, highlights, clock, result, end_result, batch,
                   loop_vars, side_vars>>

\* _build_system_prompt
BuildSystemPrompt(ok) ==
    /\ pc = "build_system_prompt"
    /\ state' =
         IF ok THEN [state EXCEPT !.system_prompt = "assembled prompt"]
         ELSE [state EXCEPT !.error = "Failed to build system prompt",
                            !.system_prompt = FallbackPrompt]
    /\ turn' = [Logged("build_system_prompt") EXCEPT !.build_failed = ~ok]
    /\ pc' = "generate_response"
    /\ UNCHANGED <<conversations, highlights, clock, result, end_result, batch,
                   loop_vars, side_vars>>

\* variant: the except branches record the error and leave the response empty
GeneratedStateNoApology(s, r) ==
    IF r.raised = None
    THEN [s EXCEPT !.response = r.value, !.error = None]
    ELSE [s EXCEPT !.error = r.message]

\* variant: a successful call leaves the error of an earlier node in place
GeneratedStateKeepsError(s, r) ==
    IF r.raised = None
    THEN [s EXCEPT !.response = r.value]
    ELSE IF r.raised \in LLMErrorClasses
    THEN [s EXCEPT !.response = ApologyLLM, !.error = r.message]
    ELSE [s EXCEPT !.response = ApologyUnexpected, !.error = r.message]

\* _generate_response on what llm_client.chat returned or raised
GeneratedState(s, r) ==
    IF r.raised = None
    THEN [s EXCEPT !.response = r.value, !.error = None]
    ELSE IF r.raised \in LLMErrorClasses
    THEN [s EXCEPT !.response = ApologyLLM, !.error = r.message]
    ELSE [s EXCEPT !.response = ApologyUnexpected, !.error = r.message]

GenerateResponse(p) ==
    /\ pc = "generate_response"
    /\  LET r == ClaudeChat(state.user_message, state.conversation_history,
                            state.system_prompt, p)
        IN  /\ state' = GeneratedState(state, r)
            /\ turn' = [Logged("generate_response") EXCEPT
                            !.model_failed = (r.raised # None),
                            !.generated = state'.response,
                            !.sent = r.sent.messages]
    /\ pc' = "update_conversation"
    /\ UNCHANGED <<conversations, highlights, clock, result, end_result, batch,
                   loop_vars, side_vars>>

\* the two turn records _update_conversation appends, lines 211-222
NewTurns(user_message, response, now) ==
    <<[role |-> "user", content |-> user_message, timestamp |-> now],
      [role |-> "assistant", content |-> response, timestamp |-> now]>>

\* variant: a column type that tracks changes made to the list in place
CommittedMessagesTracked(stored, user_message, response, now) ==
    stored \o NewTurns(user_message, response, now)

\* Column messages after session.commit(), lines 207-224. messages is a plain
\* JSON column (database.py:75): the session writes it when the attribute was
\* assigned (line 208, for a row whose messages are empty or NULL) and does not
\* see the in-place append to the list loaded from a row that holds turns
CommittedMessages(stored, user_message, response, now) ==
    IF stored = <<>> THEN NewTurns(user_message, response, now) ELSE stored

\* variant: a query that never finds the active conversation
ActiveConversationsNone(convs, user_id) == {}

\* the rows of the query for the user's active conversation, lines 188-191
ActiveConversations(convs, user_id) ==
    {c \in 1..Len(convs) :
        convs[c].user_id = user_id /\ convs[c].status = "active"}

\* variant: the except branch replaces the response by an apology
PersistFailedApology(s) ==
    [s EXCEPT !.error = "Failed to save conversation",
              !.response = ApologyWorkflow,
              !.should_update_memory = FALSE]

\* lines 235-238: the except branch of _update_conversation
PersistFailed(s) ==
    [s EXCEPT !.error = "Failed to save conversation",
              !.should_update_memory = FALSE]

\* lines 226-228
PersistSucceeded(s, id) ==
    [s EXCEPT !.conversation_id = Str(id), !.should_update_memory = TRUE]

\* variant: the write that also puts the conversation back to active
WrittenRowReopens(row, user_message, response, now) ==
    [row EXCEPT !.messages = CommittedMessages(@, user_message, response, now),
                !.status = "active"]

\* the row of the conversation after the commit of lines 207-224
WrittenRow(row, user_message, response, now) ==
    [row EXCEPT !.messages = CommittedMessages(@, user_message, response, now)]

\* _update_conversation writing the turn to row target of table convs (a new
\* row when target = Len(convs) + 1); db says whether the session fails before
\* the commit, after it (reading conversation.id back), or not at all
UpdateWrite(convs, target, db) ==
    LET user_id == ToInt(state.user_id)
        base == IF target = Len(convs) + 1
                THEN Append(convs, ConversationRow(user_id, <<>>, "active", clock))
                ELSE convs
        written == [base EXCEPT ![target] =
                        WrittenRow(@, state.user_message, state.response, clock)]
    IN  /\ conversations' = written
        /\ state' = IF db = "ok" THEN PersistSucceeded(state, target)
                    ELSE PersistFailed(state)
        /\ turn' = [Logged("update_conversation") EXCEPT
                        !.persist = IF db = "ok" THEN "committed"
                                    ELSE "failed_after_commit",
                        !.target = target,
                        !.created = IF target = Len(convs) + 1 THEN target ELSE 0,
                        !.stored = (written[target].messages # base[target].messages)]

DbOutcomes == {"ok", "fail_before_commit", "fail_after_commit"}

\* variant: an id that matches no conversation is treated as no id at all
UpdateConversationCreates(db) ==
    /\ pc = "update_conversation"
    /\  LET given == Truthy(state.conversation_id)
            found == IF IsNumeric(state.conversation_id)
                     THEN FindConversation(conversations,
                                           ToInt(state.conversation_id))
                     ELSE 0
            actives == ActiveConversations(conversations, ToInt(state.user_id))
        IN  IF db = "fail_before_commit"
            THEN /\ state' = PersistFailed(state)
                 /\ turn' = [Logged("update_conversation") EXCEPT
                                 !.persist = "failed"]
                 /\ UNCHANGED conversations
            ELSE IF given /\ found # 0
            THEN UpdateWrite(conversations, found, db)
            ELSE IF actives # {}
            THEN \E a \in actives : UpdateWrite(conversations, a, db)
            ELSE UpdateWrite(conversations, Len(conversations) + 1, db)
    /\ pc' = "trigger_highlights"
    /\ UNCHANGED <<highlights, clock, result, end_result, batch,
                   loop_vars, side_vars>>

\* _update_conversation
UpdateConversation(db) ==
    /\ pc = "update_conversation"
    /\  LET given == Truthy(state.conversation_id)
            found == IF IsNumeric(state.conversation_id)
                     THEN FindConversation(conversations,
                                           ToInt(state.conversation_id))
                     ELSE 0
            actives == ActiveConversations(conversations, ToInt(state.user_id))
        IN  IF db = "fail_before_commit" \/ (given /\ found = 0)
            THEN /\ state' = PersistFailed(state)
                 /\ turn' = [Logged("update_conversation") EXCEPT
                                 !.persist = "failed"]
                 /\ UNCHANGED conversations
            ELSE IF given THEN UpdateWrite(conversations, found, db)
            ELSE IF actives # {}
            THEN \E a \in actives : UpdateWrite(conversations, a, db)
            ELSE UpdateWrite(conversations, Len(conversations) + 1, db)
    /\ pc' = "trigger_highlights"
    /\ UNCHANGED <<highlights, clock, result, end_result, batch,
                   loop_vars, side_vars>>

\* variant: the guard without the should_update_memory test
ShouldTriggerAnyId(s) == Truthy(s.conversation_id)

\* lines 249-254: whether _trigger_highlights_extraction goes on to extract
ShouldTrigger(s) == s.should_update_memory /\ Truthy(s.conversation_id)

\* variant: a failure of the extraction leaves the node as an exception
TriggerHighlightsExtractionRaises(init_ok, env) ==
    /\ pc = "trigger_highlights"
    /\ IF ~ShouldTrigger(state) \/ ~IsNumeric(state.conversation_id)
       THEN /\ turn' = Logged("trigger_highlights")
            /\ pc' = "END"
            /\ UNCHANGED highlights
       ELSE LET r == process_conversation(conversations, highlights,
                                          ToInt(state.conversation_id), clock, env)
            IN  IF ~init_ok \/ r.ret = "raise"
                THEN /\ turn' = [Logged("trigger_highlights") EXCEPT
                                    !.raised = TRUE]
                     /\ pc' = "raised"
                     /\ UNCHANGED highlights
                ELSE /\ highlights' = r.highlights
                     /\ turn' = [Logged("trigger_highlights") EXCEPT
                                    !.called = TRUE, !.gate = r.gate,
                                    !.llm = r.llm]
                     /\ pc' = "END"
    /\ UNCHANGED <<conversations, clock, state, result, end_result, batch,
                   loop_vars, side_vars>>

\* _trigger_highlights_extraction: init_ok is whether HighlightsExtractor()
\* could be constructed; every exception (also the ValueError of int()) is
\* caught
TriggerHighlightsExtraction(init_ok, env) ==
    /\ pc = "trigger_highlights"
    /\ IF ~ShouldTrigger(state) \/ ~init_ok \/ ~IsNumeric(state.conversation_id)
       THEN /\ turn' = Logged("trigger_highlights")
            /\ UNCHANGED highlights
       ELSE LET r == process_conversation(conversations, highlights,
                                          ToInt(state.conversation_id), clock, env)
            IN  /\ highlights' = r.highlights
                /\ turn' = [Logged("trigger_highlights") EXCEPT
                                !.called = TRUE, !.gate = r.gate,
                                !.llm = r.llm]
    /\ pc' = "END"
    /\ UNCHANGED <<conversations, clock, state, result, end_result, batch,
                   loop_vars, side_vars>>

\* chat, lines 313-335: the result returned from the final state, or the
\* apology when the workflow raised
ChatReturn ==
    /\ pc \in {"END", "raised"}
    /\ result' =
         IF pc = "END"
         THEN [response |-> state.response,
               conversation_id |-> state.conversation_id,
               error |-> state.error, user_id |-> state.user_id]
         ELSE [response |-> ApologyWorkflow,
               conversation_id |-> state.conversation_id,
               error |-> "invalid literal for int()",
               user_id |-> state.user_id]
    /\ turn' = [turn EXCEPT !.returned = TRUE]
    /\ state' = NoState
    /\ pc' = "idle"
    /\ UNCHANGED <<conversations, highlights, clock, end_result, batch,
                   loop_vars, side_vars>>

\* end_conversation(conversation_id): db_ok is whether the session's statements
\* succeed, init_ok whether HighlightsExtractor() could be constructed;
\* end_result.analysed records whether the final pass sent the transcript to
\* the model
EndConversation(conversation_id, db_ok, init_ok, env) ==
    /\ pc = "idle"
    /\ clock < MaxClock
    /\ clock' = clock + 1
    /\  LET id == IF IsNumeric(conversation_id)
                  THEN FindConversation(conversations, ToInt(conversation_id))
                  ELSE 0
            Return(b, a) == end_result' = [conversation_id |-> conversation_id,
                                           returned |-> b, analysed |-> a]
            ended == [conversations EXCEPT ![id].status = "completed",
                                           ![id].ended_at = clock']
            r == process_conversation(ended, highlights, id, clock', env)
        IN  IF ~IsNumeric(conversation_id) \/ ~db_ok \/ id = 0
            THEN /\ Return("False", FALSE)
                 /\ UNCHANGED <<conversations, highlights>>
            ELSE /\ conversations' = ended
                 /\ IF ~init_ok
                    THEN Return("False", FALSE) /\ UNCHANGED highlights
                    ELSE /\ highlights' = r.highlights
                         /\ Return(IF r.ret = "raise" THEN "False" ELSE "True",
                                   r.llm)
    /\ result' = NoResult
    /\ turn' = NewTurn
    /\ UNCHANGED <<pc, state, batch, loop_vars, side_vars>>

\* a call of HighlightsExtractor.process_conversation(conversation_id)
ProcessConversation(conversation_id, env) ==
    /\ pc = "idle"
    /\ clock < MaxClock
    /\ clock' = clock + 1
    /\ highlights' = process_conversation(conversations, highlights,
                                          conversation_id, clock', env).highlights
    /\ result' = NoResult
    /\ turn' = NewTurn
    /\ end_result' = NoEnd
    /\ UNCHANGED <<conversations, pc, state, batch, loop_vars, side_vars>>

\* process_all_completed_conversations, lines 328-337: the completed
\* conversations that have no Highlight
BatchStart ==
    /\ pc = "idle"
    /\ clock < MaxClock
    /\ clock' = clock + 1
    /\ batch' = [NoBatch EXCEPT !.queue =
                    {c \in 1..Len(conversations) :
                        /\ conversations[c].status = "completed"
                        /\ HighlightsOf(highlights, c) = {}}]
    /\ pc' = "batch"
    /\ result' = NoResult
    /\ turn' = NewTurn
    /\ end_result' = NoEnd
    /\ UNCHANGED <<conversations, highlights, state, loop_vars, side_vars>>

\* one pass of the loop of lines 339-352
BatchStep(c, env) ==
    /\ pc = "batch"
    /\ c \in batch.queue
    /\  LET r == process_conversation(conversations, highlights, c, clock, env)
            res == batch.results
        IN  /\ highlights' = r.highlights
            /\ batch' =
                 [queue |-> batch.queue \ {c},
                  results |->
                     IF r.ret = "raise"
                     THEN [res EXCEPT !.errors = @ + 1]
                     ELSE IF r.ret = "True"
                     THEN [res EXCEPT !.extracted = @ + 1,
                                      !.processed = @ + 1]
                     ELSE [res EXCEPT !.skipped = @ + 1, !.processed = @ + 1]]
    /\ UNCHANGED <<conversations, clock, pc, state, result, turn, end_result,
                   loop_vars, side_vars>>

\* lines 354-359: the loop is over, the statistics are returned
BatchReturn ==
    /\ pc = "batch"
    /\ batch.queue = {}
    /\ pc' = "idle"
    /\ batch' = NoBatch
    /\ UNCHANGED <<conversations, highlights, clock, state, result, turn,
                   end_result, loop_vars, side_vars>>

InitStore ==
    /\ conversations = <<>>
    /\ highlights = <<>>
    /\ clock = 0
    /\ pc = "idle"
    /\ state = NoState
    /\ result = NoResult
    /\ turn = NewTurn
    /\ end_result = NoEnd
    /\ batch = NoBatch

\* no context-assembly call made, no concurrent turn running
InitSide ==
    /\ layers = NoLayers
    /\ ctx_out = NoOut
    /\ race = NoRace

Init ==
    /\ InitStore
    /\ transcript = <<>>
    /\ stop = None
    /\ InitSide

\* ---------------------------------------------------------- specifications
\* Spec: every public operation, called one at a time, on a store that starts
\* empty. The context and the prompt load, the caller sends no history and
\* the provider answers every chat request; SpecTurn covers their failures.
SpecUserIds == {"1", "2"}

SpecConversationIds == {None} \cup {Str(n) : n \in 1..(MaxClock - 1)}

SpecProviders == {Provider("content", t) : t \in ModelTexts}

\* the answers of the provider to an extraction prompt that Spec draws from:
\* an error, a text that is no JSON, a key outside the vocabulary, two valid
\* answers; SpecTurn draws from all of ExtractionOutputs
SpecOutputs ==
    {ExtractionError,
     ExtractionText("", [t |-> "garbage", v |-> <<>>], ""),
     ExtractionText("", JDict([structured_data |-> SDUnknown,
                               unstructured_notes |-> "Likes blue"]), ""),
     ExtractionText(FenceJson, ValidBody, Fence),
     ExtractionText("", JDict([structured_data |-> SDOther,
                               unstructured_notes |-> ""]), "")}

SpecEnvs == [db : {"ok", "read_fail", "write_fail"}, out : SpecOutputs]

Next ==
    \/ \E u \in SpecUserIds, m \in UserMessages, c \in SpecConversationIds :
          ChatStart(u, m, c, <<>>)
    \/ LoadFullContext(TRUE)
    \/ BuildSystemPrompt(TRUE)
    \/ \E p \in SpecProviders : GenerateResponse(p)
    \/ \E db \in DbOutcomes : UpdateConversation(db)
    \/ \E init_ok \in BOOLEAN, env \in SpecEnvs :
          TriggerHighlightsExtraction(init_ok, env)
    \/ ChatReturn
    \/ \E c \in SpecConversationIds, db_ok \in BOOLEAN, init_ok \in BOOLEAN,
          env \in SpecEnvs : EndConversation(c, db_ok, init_ok, env)
    \/ \E c \in 1..(MaxClock - 1), env \in SpecEnvs :
          ProcessConversation(c, env)
    \/ BatchStart
    \/ \E c \in 1..(MaxClock - 1), env \in SpecEnvs : BatchStep(c, env)
    \/ BatchReturn

Spec == Init /\ [][Next]_vars

\* SpecTurn: chat calls only, with every failure of every step, every caller
\* input and every answer of the provider
TurnNext ==
    \/ /\ clock < MaxTurnCalls
       /\ \E u \in UserIds, m \in UserMessages, c \in ConversationIds,
             h \in Histories : ChatStart(u, m, c, h)
    \/ \E ok \in BOOLEAN : LoadFullContext(ok)
    \/ \E ok \in BOOLEAN : BuildSystemPrompt(ok)
    \/ \E p \in ProviderBehaviours : GenerateResponse(p)
    \/ \E db \in DbOutcomes : UpdateConversation(db)
    \/ \E init_ok \in BOOLEAN, env \in Envs :
          TriggerHighlightsExtraction(init_ok, env)
    \/ ChatReturn

SpecTurn == Init /\ [][TurnNext]_vars

\* --------------------------------------------------------- the dialogue loop
\* CHECK_CONTINUE of the looping workflow: the closing phrases
ClosingPhrases == {"bye", "goodbye"}

\* the cap on the number of turns of one conversation
TurnCap == 10

\* the content of the most recent turn with role user, None when there is none
RECURSIVE LastUserMessage(_)
LastUserMessage(messages) ==
    IF messages = <<>> THEN None
    ELSE IF messages[Len(messages)].role = "user"
    THEN messages[Len(messages)].content
    ELSE LastUserMessage(SubSeq(messages, 1, Len(messages) - 1))

\* the decision of CHECK_CONTINUE on the turns accumulated so far
CheckContinueLoose(messages) ==
    LET last == LastUserMessage(messages)
    IN  IF /\ last # None
           /\ \E p \in ClosingPhrases : Strip(Lower(Chars(last))) = Chars(p)
        THEN "stop"
        ELSE IF Len(messages) > TurnCap THEN "stop" ELSE "continue"

CheckContinue(messages) ==
    LET last == LastUserMessage(messages)
    IN  IF /\ last # None
           /\ \E p \in ClosingPhrases : Strip(Lower(Chars(last))) = Chars(p)
        THEN "stop"
        ELSE IF Len(messages) >= TurnCap THEN "stop" ELSE "continue"

LoopMessages ==
    {" Bye ", "GOODBYE", "Goodbye for now", "I am allergic to dairy"}

\* the history the caller hands to the first turn of a dialogue
LoopHistories ==
    {<<>>, <<[role |-> "assistant", content |-> "Good morning!"]>>}

\* PERSIST_TURN then CHECK_CONTINUE of one pass of the loop; the loop takes a
\* further message only after a continue decision
LoopTurn(user_message, response) ==
    /\ stop # "stop"
    /\ transcript' = transcript \o
            <<[role |-> "user", content |-> user_message],
              [role |-> "assistant", content |-> response]>>
    /\ stop' = CheckContinue(transcript')
    /\ UNCHANGED <<conversations, highlights, clock, pc, state, result, turn,
                   end_result, batch, side_vars>>

LoopInit ==
    /\ InitStore
    /\ transcript \in LoopHistories
    /\ stop = None
    /\ InitSide

LoopNext == \E m \in LoopMessages, r \in ModelTexts : LoopTurn(m, r)

SpecLoop == LoopInit /\ [][LoopNext]_vars

\* ------------------------------------------- consolidation of the highlights
\* number of rows of the highlights table a summary is drawn from
MaxHighlights == 3

\* whether a stored structured_data is truthy: a dict with at least one key
TruthyData(sd) == sd.t = "dict" /\ DOMAIN sd.v # {}

\* the rows of the query of lines 375-377 before the ordering
UserHighlights(hls, user_id) == {h \in 1..Len(hls) : hls[h].user_id = user_id}

\* order_by(Highlight.extracted_at.desc()): the row ids, latest extraction first
RECURSIVE ByRecency(_, _)
ByRecency(hls, rows) ==
    IF rows = {} THEN <<>>
    ELSE LET m == CHOOSE x \in rows :
                    \A y \in rows : hls[y].extracted_at <= hls[x].extracted_at
         IN  <<m>> \o ByRecency(hls, rows \ {m})

\* variant: a value of a later row of the loop replaces the one already held
MergedOverwrites(acc, sd) ==
    LET add == IF TruthyData(sd)
               THEN {k \in DOMAIN sd.v : sd.v[k] # None}
               ELSE {}
    IN  [k \in DOMAIN acc \cup add |-> IF k \in add THEN sd.v[k] ELSE acc[k]]

\* lines 395-398: consolidated_structured after the structured data sd of one
\* Highlight was merged into acc
Merged(acc, sd) ==
    LET add == IF TruthyData(sd)
               THEN {k \in DOMAIN sd.v : sd.v[k] # None /\ k \notin DOMAIN acc}
               ELSE {}
    IN  [k \in DOMAIN acc \cup add |-> IF k \in DOMAIN acc THEN acc[k] ELSE sd.v[k]]

\* lines 387-398: the loop over the Highlights, latest first
RECURSIVE Consolidate(_, _, _)
Consolidate(hls, order, acc) ==
    IF order = <<>> THEN acc
    ELSE Consolidate(hls, Tail(order),
                     Merged(acc, hls[Head(order)].structured_data))

\* lines 391-392: all_notes, the stripped notes that are not blank
RECURSIVE AllNotes(_, _)
AllNotes(hls, order) ==
    IF order = <<>> THEN <<>>
    ELSE LET note == Strip(Chars(hls[Head(order)].unstructured_notes))
         IN  (IF note # <<>> THEN <<note>> ELSE <<>>)
                 \o AllNotes(hls, Tail(order))

\* line 401: " | ".join(all_notes), as a sequence of characters
RECURSIVE JoinNotes(_)
JoinNotes(notes) ==
    IF notes = <<>> THEN <<>>
    ELSE IF Len(notes) = 1 THEN notes[1]
    ELSE notes[1] \o <<" ", "|", " ">> \o JoinNotes(Tail(notes))

\* HighlightsExtractor.get_user_highlights_summary
get_user_highlights_summary(hls, user_id) ==
    LET order == ByRecency(hls, UserHighlights(hls, user_id))
    IN  IF order = <<>>
        THEN [structured_data |-> EmptyDict, unstructured_notes |-> <<>>,
              source_conversations |-> <<>>]
        ELSE [structured_data |-> Consolidate(hls, order, EmptyDict),
              unstructured_notes |-> JoinNotes(AllNotes(hls, order)),
              source_conversations |->
                  [i \in 1..Len(order) |-> hls[order[i]].conversation_id],
              last_updated |-> hls[order[1]].extracted_at,
              total_highlights |-> Len(order)]

\* what an extraction stored in a Highlight: structured data and notes
StoredExtractions ==
    {[structured_data |-> JDict([allergies |-> "dairy"]),
      unstructured_notes |-> "Prefers morning walks"],
     [structured_data |-> JDict([allergies |-> None, goals_mentioned |-> "run 5k"]),
      unstructured_notes |-> " likes hiking "],
     [structured_data |-> JDict([allergies |-> "nuts"]),
      unstructured_notes |-> ""],
     [structured_data |-> JDict(EmptyDict),
      unstructured_notes |-> "   "]}

SummaryUsers == {1, 2}

\* the highlights tables of n rows: row h belongs to conversation h, and the
\* extraction times of the rows are pairwise different
HighlightTables(n) ==
    {[h \in 1..n |->
        [user_id |-> u[h], conversation_id |-> h,
         structured_data |-> e[h].structured_data,
         unstructured_notes |-> e[h].unstructured_notes,
         extracted_at |-> p[h]]] :
            u \in [1..n -> SummaryUsers],
            e \in [1..n -> StoredExtractions],
            p \in Permutations(1..n)}

\* a call of get_user_highlights_summary on the stored table
GetUserHighlightsSummary(user_id) ==
    /\ ctx_out' = [op |-> "get_user_highlights_summary", user_id |-> user_id,
               value |-> get_user_highlights_summary(layers.highlights, user_id)]
    /\ UNCHANGED <<conversations, highlights, clock, pc, state, result, turn,
                   end_result, batch, loop_vars, layers, race>>

SummaryInit ==
    /\ InitStore
    /\ transcript = <<>>
    /\ stop = None
    /\ \E n \in 0..MaxHighlights :
            layers \in {[highlights |-> t] : t \in HighlightTables(n)}
    /\ ctx_out = NoOut
    /\ race = NoRace

SummaryNext == \E u \in SummaryUsers : GetUserHighlightsSummary(u)

SpecSummary == SummaryInit /\ [][SummaryNext]_vars

\* ------------------------------------------------------- context assembly
\* the layers whose load reads the database without an except clause
FallibleLayers == {"insights", "highlights", "external_data", "knowledge"}

\* the stored layers: user 1 is stored, user 2 is not
ContextStores ==
    [users : {[u \in {1} |->
                 [age |-> 34, gender |-> "f", location |-> "Berlin",
                  goals |-> <<"sleep">>,
                  preferences |-> [communication_style |-> "analytical"]]]},
     metrics : {EmptyDict, [steps |-> <<8000, 10000>>]},
     insights : {<<>>,
                 <<[user_id |-> 1, category |-> "sleep",
                    finding |-> "Sleep improved", timeframe |-> "7d",
                    confidence |-> 90, extra_data |-> None]>>},
     highlights : {<<>>,
                   <<[user_id |-> 1, conversation_id |-> 1,
                      structured_data |-> JDict([allergies |-> "dairy"]),
                      unstructured_notes |-> "Prefers morning walks",
                      extracted_at |-> 1]>>},
     weather : {EmptyDict,
                [Berlin |-> [temperature |-> 21, condition |-> "sunny"]]},
     knowledge : {<<>>,
                  <<[topic |-> "sleep_hygiene",
                     content |-> "Keep a regular bedtime",
                     source |-> "CDC"]>>}]

\* dict.get(key, default)
Get(d, key, default) == IF key \in DOMAIN d THEN d[key] ELSE default

\* RawDataLoader.load_user_data: {} for a user that is not stored
load_user_data(store, user_id) ==
    IF user_id \notin DOMAIN store.users THEN EmptyDict
    ELSE [user_profile |-> store.users[user_id],
          recent_metrics |-> store.metrics]

\* ContextAssembler.load_insights: the rows of the user, without the user id
RECURSIVE load_insights(_, _)
load_insights(insights, user_id) ==
    IF insights = <<>> THEN <<>>
    ELSE LET i == Head(insights)
         IN  (IF i.user_id = user_id
              THEN <<[category |-> i.category, finding |-> i.finding,
                      timeframe |-> i.timeframe, confidence |-> i.confidence,
                      extra_data |-> i.extra_data]>>
              ELSE <<>>) \o load_insights(Tail(insights), user_id)

\* ContextAssembler.load_external_data
load_external_data(store, user_location) ==
    IF user_location \in DOMAIN store.weather
    THEN [weather |-> store.weather[user_location]]
    ELSE EmptyDict

\* what a call that raised hands to its caller
Raised == [raised |-> TRUE]

\* ContextAssembler.assemble_full_context; failed is the set of layers whose
\* query raises. No load is wrapped in a try, so the first one that raises
\* ends the call
assemble_full_context(store, user_id, failed) ==
    LET raw_data == load_user_data(store, user_id)
        profile == Get(raw_data, "user_profile", EmptyDict)
    IN  IF failed \cap FallibleLayers # {} THEN Raised
        ELSE [raised |-> FALSE,
              user_id |-> user_id,
              raw_data |-> raw_data,
              insights |-> load_insights(store.insights, user_id),
              highlights |-> get_user_highlights_summary(store.highlights, user_id),
              external_data |->
                  load_external_data(store, Get(profile, "location", "")),
              knowledge |-> store.knowledge,
              user_preferences |-> Get(profile, "preferences", EmptyDict)]

\* the minimal context of _load_full_context's except branch
FallbackContext(user_id) ==
    [raised |-> FALSE, user_id |-> user_id, raw_data |-> EmptyDict,
     insights |-> <<>>, highlights |-> EmptyDict, external_data |-> EmptyDict,
     knowledge |-> <<>>, user_preferences |-> EmptyDict]

\* a call of assemble_full_context
AssembleFullContext(user_id, failed) ==
    /\ ctx_out' = [op |-> "assemble_full_context", user_id |-> user_id,
                   failed |-> failed,
                   value |-> assemble_full_context(layers, user_id, failed)]
    /\ UNCHANGED <<conversations, highlights, clock, pc, state, result, turn,
                   end_result, batch, loop_vars, layers, race>>

\* ------------------------------------------------------ the prompt sections
\* A rendered text is the sequence of its lines: the elements of sections are
\* joined by a newline, and an element that starts with a newline gives an
\* empty line before its text.
RECURSIVE Sum(_)
Sum(values) == IF values = <<>> THEN 0 ELSE Head(values) + Sum(Tail(values))

\* a line of the activity summary: the values and their average
MetricLine(label, values) ==
    [label |-> label, n |-> Len(values), values |-> values,
     avg |-> IF values # <<>> THEN Sum(values) \div Len(values) ELSE 0]

\* lines 86-103 of HealthDataSection._generate_content
MetricLines(metrics) ==
    IF metrics = EmptyDict THEN <<>>
    ELSE <<"Recent Activity Summary:">>
            \o (IF "steps" \in DOMAIN metrics
                THEN <<MetricLine("Daily steps", metrics["steps"])>> ELSE <<>>)
            \o (IF "sleep_hours" \in DOMAIN metrics
                THEN <<MetricLine("Sleep duration", metrics["sleep_hours"])>>
                ELSE <<>>)
            \o (IF "heart_rate" \in DOMAIN metrics
                THEN <<MetricLine("Resting heart rate", metrics["heart_rate"])>>
                ELSE <<>>)

\* lines 106-112
ProfileLines(profile) ==
    IF profile = EmptyDict THEN <<>>
    ELSE <<"", "User Profile:",
           [label |-> "Age", value |-> Get(profile, "age", "unknown")],
           [label |-> "Goals", value |-> Get(profile, "goals", <<>>)]>>
            \o (IF Get(profile, "location", None) \notin {None, ""}
                THEN <<[label |-> "Location", value |-> profile["location"]]>>
                ELSE <<>>)

HealthHeader == "CURRENT HEALTH DATA:"

HealthFallback == "No recent health data available."

\* "\n".join(sections) after a text that ends in a newline
JoinedLines(sections) == IF sections = <<>> THEN <<"">> ELSE sections

\* variant: the section without the test for empty raw data
HealthDataSectionNoFallback(context) ==
    LET raw_data == Get(context, "raw_data", EmptyDict)
    IN  <<HealthHeader>>
            \o JoinedLines(
                MetricLines(Get(raw_data, "recent_metrics", EmptyDict))
                    \o ProfileLines(Get(raw_data, "user_profile", EmptyDict)))

\* HealthDataSection._generate_content
HealthDataSection(context) ==
    LET raw_data == Get(context, "raw_data", EmptyDict)
    IN  IF raw_data = EmptyDict
        THEN <<HealthHeader, HealthFallback>>
        ELSE <<HealthHeader>>
                \o JoinedLines(
                    MetricLines(Get(raw_data, "recent_metrics", EmptyDict))
                        \o ProfileLines(Get(raw_data, "user_profile", EmptyDict)))

\* the contexts a section is rendered against: the assembled ones, the
\* fallback of _load_full_context and a context without the key raw_data
RenderContexts(store) ==
    {assemble_full_context(store, u, {}) : u \in SummaryUsers}
        \cup {FallbackContext(1), [user_id |-> 1]}

\* a call of HealthDataSection.generate on a context
RenderHealthData(context) ==
    /\ ctx_out' = [op |-> "health_data", context |-> context,
                   value |-> HealthDataSection(context)]
    /\ UNCHANGED <<conversations, highlights, clock, pc, state, result, turn,
                   end_result, batch, loop_vars, layers, race>>

ContextInit ==
    /\ InitStore
    /\ transcript = <<>>
    /\ stop = None
    /\ layers \in ContextStores
    /\ ctx_out = NoOut
    /\ race = NoRace

ContextNext ==
    \/ \E u \in SummaryUsers, failed \in SUBSET FallibleLayers :
            AssembleFullContext(u, failed)
    \/ \E c \in RenderContexts(layers) : RenderHealthData(c)

SpecContext == ContextInit /\ [][ContextNext]_vars

\* ------------------------------------------------- the language-model clients
\* llm_clients/claude_client.py, ClaudeClient.chat: the list sent is the
\* caller's list itself when that list is not empty, so the append of the user
\* message is seen by the caller (history_after)
LlmClientsChat(user_message, conversation_history, system_prompt, provider) ==
    LET r == ClaudeChat(user_message, conversation_history, system_prompt,
                        provider)
    IN  [raised |-> r.raised, value |-> r.value, message |-> r.message,
         sent |-> r.sent,
         history_after |-> IF conversation_history # <<>>
                           THEN r.sent.messages
                           ELSE conversation_history]

\* api/claude_client.py, ClaudeClient.chat, with the caller's list after the
\* call: the messages are built in a list of their own
ApiChat(user_message, conversation_history, system_prompt, provider) ==
    LET r == ClaudeChat(user_message, conversation_history, system_prompt,
                        provider)
    IN  [raised |-> r.raised, value |-> r.value, message |-> r.message,
         sent |-> r.sent, history_after |-> conversation_history]

\* a call of chat of one of the two clients
ClientChat(variant, user_message, conversation_history, system_prompt, provider) ==
    /\ ctx_out' =
          [op |-> "chat", variant |-> variant, user_message |-> user_message,
           conversation_history |-> conversation_history,
           system_prompt |-> system_prompt,
           value |-> IF variant = "api"
                     THEN ApiChat(user_message, conversation_history,
                                  system_prompt, provider)
                     ELSE LlmClientsChat(user_message, conversation_history,
                                         system_prompt, provider)]
    /\ UNCHANGED <<conversations, highlights, clock, pc, state, result, turn,
                   end_result, batch, loop_vars, layers, race>>

\* the calls made: both clients, with no history, one earlier turn or two,
\* and with no, an empty or a non-empty system prompt
ClientNext ==
    \E v \in {"api", "llm_clients"}, m \in UserMessages,
       h \in {<<>>, <<[role |-> "user", content |-> "How did I sleep?"]>>,
              SampleHistory},
       s \in {None, "", FallbackPrompt}, p \in ProviderBehaviours :
            ClientChat(v, m, h, s, p)

SpecClient == Init /\ [][ClientNext]_vars

\* ------------------------------------------- concurrent _update_conversation
\* the chat turns in flight at the same time, each in its own session
RaceProcs == {1, 2}

RaceIdle ==
    [pc |-> "idle", user_id |-> 0, user_message |-> None, response |-> None,
     now |-> NoTime, found |-> 0]

\* variant: the write looks for the user's active conversation once more
RaceTargetRequeried(convs, user_id, found) ==
    IF found = 0 /\ ActiveConversations(convs, user_id) # {}
    THEN CHOOSE a \in ActiveConversations(convs, user_id) : TRUE
    ELSE found

\* lines 193-204: the conversation written is the one the query returned, a
\* new one (0) when it returned none; nothing locks the rows in between
RaceTarget(convs, user_id, found) == found

\* a chat turn without conversation_id reaches _update_conversation
RaceEnter(p, user_id, user_message, response) ==
    /\ race[p].pc = "idle"
    /\ clock < MaxClock
    /\ clock' = clock + 1
    /\ race' = [race EXCEPT ![p] =
                    [pc |-> "query", user_id |-> user_id,
                     user_message |-> user_message, response |-> response,
                     now |-> clock', found |-> 0]]
    /\ UNCHANGED <<conversations, highlights, pc, state, result, turn,
                   end_result, batch, loop_vars, layers, ctx_out>>

\* lines 188-191: the query for the user's active conversation, which sees
\* the rows committed so far
RaceQuery(p) ==
    /\ race[p].pc = "query"
    /\ \E found \in IF ActiveConversations(conversations, race[p].user_id) = {}
                    THEN {0}
                    ELSE ActiveConversations(conversations, race[p].user_id) :
            race' = [race EXCEPT ![p].pc = "write", ![p].found = found]
    /\ UNCHANGED <<conversations, highlights, clock, pc, state, result, turn,
                   end_result, batch, loop_vars, layers, ctx_out>>

\* lines 193-224: the insert of a new conversation when the query found none,
\* the append of the two turns and the commit
RaceWrite(p) ==
    /\ race[p].pc = "write"
    /\  LET me == race[p]
            target == RaceTarget(conversations, me.user_id, me.found)
        IN  conversations' =
                IF target = 0
                THEN Append(conversations,
                            WrittenRow(ConversationRow(me.user_id, <<>>, "active",
                                                       me.now),
                                       me.user_message, me.response, me.now))
                ELSE [conversations EXCEPT ![target] =
                        WrittenRow(@, me.user_message, me.response, me.now)]
    /\ race' = [race EXCEPT ![p].pc = "done"]
    /\ UNCHANGED <<highlights, clock, pc, state, result, turn, end_result,
                   batch, loop_vars, layers, ctx_out>>

\* the turn returns; its session may serve a further turn
RaceLeave(p) ==
    /\ race[p].pc = "done"
    /\ race' = [race EXCEPT ![p] = RaceIdle]
    /\ UNCHANGED <<conversations, highlights, clock, pc, state, result, turn,
                   end_result, batch, loop_vars, layers, ctx_out>>

RaceInit ==
    /\ InitStore
    /\ transcript = <<>>
    /\ stop = None
    /\ layers = NoLayers
    /\ ctx_out = NoOut
    /\ race = [p \in RaceProcs |-> RaceIdle]

RaceNext ==
    \E p \in RaceProcs :
        \/ \E u \in SummaryUsers, m \in UserMessages, r \in ModelTexts :
                RaceEnter(p, u, m, r)
        \/ RaceQuery(p)
        \/ RaceWrite(p)
        \/ RaceLeave(p)

SpecRace == RaceInit /\ [][RaceNext]_vars

\* The process dying while chat runs its workflow (lines 283-335): the state
\* dict of the call and the result it would have returned are gone, what
\* earlier commits wrote to the tables is kept
WorkflowNodes ==
    {"load_context", "build_system_prompt", "generate_response",
     "update_conversation", "trigger_highlights"}

Crash ==
    /\ pc \in WorkflowNodes
    /\ pc' = "idle"
    /\ state' = NoState
    /\ result' = NoResult
    /\ UNCHANGED <<conversations, highlights, clock, turn, end_result, batch,
                   loop_vars, side_vars>>

\* SpecCrash: chat calls that may die at any node, and the extraction pass
\* that a later caller runs on a conversation
CrashNext ==
    \/ \E u \in SpecUserIds, m \in UserMessages, c \in SpecConversationIds :
          ChatStart(u, m, c, <<>>)
    \/ LoadFullContext(TRUE)
    \/ BuildSystemPrompt(TRUE)
    \/ \E p \in SpecProviders : GenerateResponse(p)
    \/ \E db \in DbOutcomes : UpdateConversation(db)
    \/ \E init_ok \in BOOLEAN, env \in SpecEnvs :
          TriggerHighlightsExtraction(init_ok, env)
    \/ ChatReturn
    \/ Crash
    \/ \E c \in 1..(MaxClock - 1), env \in SpecEnvs :
          ProcessConversation(c, env)

SpecCrash == Init /\ [][CrashNext]_vars

\* the nodes of the workflow in the order of its edges, lines 67-73
WorkflowOrder ==
    <<"load_context", "build_system_prompt", "generate_response",
      "update_conversation", "trigger_highlights">>

\* --------------------------------------------- the external-context section
\* the weather line of ExternalContextSection._generate_content, lines
\* 218-229: the parts that are present and truthy, in the order of the code
WeatherParts(weather) ==
    (IF "temperature" \in DOMAIN weather /\ weather["temperature"] # 0
     THEN <<[celsius |-> weather["temperature"]]>> ELSE <<>>)
        \o (IF "condition" \in DOMAIN weather /\ weather["condition"] # ""
            THEN <<weather["condition"]>> ELSE <<>>)
        \o (IF "air_quality" \in DOMAIN weather /\ weather["air_quality"] # ""
            THEN <<[air_quality |-> weather["air_quality"]]>> ELSE <<>>)

\* lines 236-238: one line for each further key with a truthy value
RECURSIVE OtherLines(_, _)
OtherLines(external, keys) ==
    IF keys = {} THEN <<>>
    ELSE LET key == CHOOSE k \in keys : TRUE
         IN  (IF external[key] # ""
              THEN <<[label |-> key, value |-> external[key]]>> ELSE <<>>)
                 \o OtherLines(external, keys \ {key})

\* ExternalContextSection._generate_content, lines 209-240; now is what
\* datetime.now() returns at line 232, which strftime renders to the minute
ExternalContextSection(context, now) ==
    LET external == Get(context, "external_data", EmptyDict)
        weather == Get(external, "weather", EmptyDict)
    IN  IF external = EmptyDict
        THEN <<"EXTERNAL CONTEXT:", "No external context available.">>
        ELSE <<"EXTERNAL CONTEXT:">>
                \o (IF WeatherParts(weather) # <<>>
                    THEN <<[label |-> "Weather", parts |-> WeatherParts(weather)]>>
                    ELSE <<>>)
                \o <<[label |-> "Current time", minute |-> now]>>
                \o OtherLines(external, DOMAIN external \ {"weather"})

\* PromptSection.generate of the section called name
Generate(name, context, now) ==
    IF name = "health_data" THEN HealthDataSection(context)
    ELSE ExternalContextSection(context, now)

\* ContextAssembler.build_system_prompt, lines 430-448: the contents of the
\* sections that are known, in the order asked for; the text is "\n\n", the
\* parts joined by "---\n", and "\n---"
RECURSIVE build_system_prompt(_, _, _)
build_system_prompt(context, sections, now) ==
    IF sections = <<>> THEN <<>>
    ELSE (IF Head(sections) \in {"health_data", "external_context"}
          THEN <<Generate(Head(sections), context, now)>> ELSE <<>>)
             \o build_system_prompt(context, Tail(sections), now)

\* the contexts a prompt is built from: those of RenderContexts and one whose
\* external layer holds a further key
PromptContexts(store) ==
    RenderContexts(store)
        \cup {[FallbackContext(1) EXCEPT !.external_data =
                    [weather |-> [condition |-> "rain", temperature |-> 0],
                     season |-> "winter"]]}

\* a call of build_system_prompt(context, sections) at a minute now that is
\* not earlier than the last call; ctx_out keeps the call before this one
BuildPrompt(context, sections, now) ==
    /\ now >= clock
    /\ clock' = now
    /\ ctx_out' = [op |-> "build_system_prompt", context |-> context,
                   sections |-> sections,
                   value |-> build_system_prompt(context, sections, now),
                   before |-> IF ctx_out.op = "build_system_prompt"
                              THEN <<[context |-> ctx_out.context,
                                      sections |-> ctx_out.sections,
                                      value |-> ctx_out.value]>>
                              ELSE <<>>]
    /\ UNCHANGED <<conversations, highlights, pc, state, result, turn,
                   end_result, batch, loop_vars, layers, race>>

PromptNext ==
    \E c \in PromptContexts(layers),
       s \in {<<"external_context">>, <<"health_data", "external_context">>,
              <<"external_context", "health_data">>,
              <<"health_data", "unknown">>},
       now \in 0..MaxClock :
            BuildPrompt(c, s, now)

\* the stores whose layers the two sections read: metrics and weather vary
PromptInit ==
    /\ InitStore
    /\ transcript = <<>>
    /\ stop = None
    /\ layers \in {s \in ContextStores :
                       /\ s.insights = <<>>
                       /\ s.highlights = <<>>
                       /\ s.knowledge = <<>>}
    /\ ctx_out = NoOut
    /\ race = NoRace

SpecPrompt == PromptInit /\ [][PromptNext]_vars

\* ------------------------------------------- concurrent process_conversation

\* process_conversation(conversation_id) is called
ExtractEnter(p, conversation_id) ==
    /\ race[p].pc = "idle"
    /\ clock < MaxClock
    /\ clock' = clock + 1
    /\ race' = [race EXCEPT ![p] =
                    [pc |-> "extract", conversation_id |-> conversation_id,
                     h |-> NoHighlights, existing |-> {}, now |-> clock']]
    /\ UNCHANGED <<conversations, highlights, pc, state, result, turn,
                   end_result, batch, loop_vars, layers, ctx_out>>

\* lines 293-308: the conversation is looked up and
\* extract_highlights_from_conversation runs the gate on the rows committed so
\* far and then asks the model, which answers out; without an extraction the
\* call returns False
ExtractAnalyse(p, out) ==
    /\ race[p].pc = "extract"
    /\  LET c == race[p].conversation_id
            h == IF FindConversation(conversations, c) = 0 THEN NoHighlights
                 ELSE extract_highlights_from_conversation(conversations,
                                                           highlights, c, out)
        IN  race' = [race EXCEPT ![p].h = h,
                                 ![p].pc = IF h.t = "none" THEN "returned"
                                           ELSE "store_check"]
    /\ UNCHANGED <<conversations, highlights, clock, pc, state, result, turn,
                   end_result, batch, loop_vars, layers, ctx_out>>

\* store_highlights, lines 249-252: the query for a Highlight of the
\* conversation, which sees the rows committed so far
ExtractCheck(p) ==
    /\ race[p].pc = "store_check"
    /\ race' = [race EXCEPT
                    ![p].existing = HighlightsOf(highlights,
                                                 race[p].conversation_id),
                    ![p].pc = "store_write"]
    /\ UNCHANGED <<conversations, highlights, clock, pc, state, result, turn,
                   end_result, batch, loop_vars, layers, ctx_out>>

\* store_highlights, lines 254-270: the update of the row the query returned,
\* or the insert of a new row when it returned none, and the commit; no
\* constraint of the table (database.py:219-228) rejects a second row of the
\* conversation
ExtractWrite(p) ==
    /\ race[p].pc = "store_write"
    /\  LET me == race[p]
            c == me.conversation_id
        IN  highlights' =
                IF me.existing # {}
                THEN LET e == CHOOSE x \in me.existing :
                                    \A y \in me.existing : x <= y
                     IN  [highlights EXCEPT
                            ![e].structured_data = me.h.structured_data,
                            ![e].unstructured_notes = me.h.unstructured_notes,
                            ![e].extracted_at = me.now]
                ELSE IF HighlightInitRaises(me.h.structured_data)
                THEN highlights
                ELSE Append(highlights,
                            HighlightRow(conversations[c].user_id, c,
                                         me.h.structured_data,
                                         me.h.unstructured_notes, me.now))
    /\ race' = [race EXCEPT ![p].pc = "returned"]
    /\ UNCHANGED <<conversations, clock, pc, state, result, turn, end_result,
                   batch, loop_vars, layers, ctx_out>>

\* the call returns
ExtractLeave(p) ==
    /\ race[p].pc = "returned"
    /\ race' = [race EXCEPT ![p] = RaceIdle]
    /\ UNCHANGED <<conversations, highlights, clock, pc, state, result, turn,
                   end_result, batch, loop_vars, layers, ctx_out>>

\* SpecExtractRace: chat turns are persisted and process_conversation runs,
\* two executions at a time, their steps interleaved in every order
ExtractRaceNext ==
    \E p \in RaceProcs :
        \/ \E m \in UserMessages, r \in ModelTexts : RaceEnter(p, 1, m, r)
        \/ RaceQuery(p)
        \/ RaceWrite(p)
        \/ RaceLeave(p)
        \/ ExtractEnter(p, 1)
        \/ \E out \in SpecOutputs : ExtractAnalyse(p, out)
        \/ ExtractCheck(p)
        \/ ExtractWrite(p)
        \/ ExtractLeave(p)

SpecExtractRace == RaceInit /\ [][ExtractRaceNext]_vars

C2_ErrorOnlyFromModel ==
    turn.returned /\ ~turn.model_failed => result.error = None

\* C2: the error a chat call returns is not None only when the model call
\* failed, the persist step failed or the workflow itself raised; a failure of
\* context load, prompt build or extraction alone leaves it None
C2_ErrorFromModelPersistOrWorkflow ==
    turn.returned /\ result.error # None =>
        \/ turn.model_failed
        \/ turn.persist \in {"failed", "failed_after_commit"}
        \/ turn.raised

\* a call returned error None although context load and prompt build failed
C2_DegradedButClean ==
    /\ turn.returned
    /\ turn.load_failed /\ turn.build_failed
    /\ ~turn.model_failed
    /\ turn.persist = "committed"
    /\ turn.called
    /\ result.error = None

\* C3: when the persist step fails, should_update_memory is false from then on
\* and the response returned is the one that was generated
C3_PersistFailureKeepsResponse ==
    /\ pc \in {"trigger_highlights", "END"} /\ turn.persist \in {"failed", "failed_after_commit"}
            => /\ ~state.should_update_memory
               /\ state.response = turn.generated
    /\ turn.returned /\ turn.persist \in {"failed", "failed_after_commit"}
            => result.response = turn.generated

\* a call returned the text of the model after its persist step failed
C3_ReturnedAfterPersistFailure ==
    /\ turn.returned
    /\ turn.persist = "failed"
    /\ ~turn.model_failed
    /\ result.response \in ModelTexts

\* C4: extraction runs for a turn only after the persist step of that turn
\* committed; after a failed persist the trigger step leaves the highlights as
\* they are
C4_ExtractionOnlyAfterCommit ==
    /\ [](turn.called \/ turn.gate \/ turn.llm =>
            /\ turn.persist = "committed"
            /\ turn.target \in 1..Len(conversations))
    /\ [][pc = "trigger_highlights" /\ turn.persist # "committed"
            => highlights' = highlights]_vars

\* extraction ran and stored a Highlight for the turn just committed
C4_ExtractedAfterCommit ==
    /\ turn.called /\ turn.llm
    /\ turn.persist = "committed"
    /\ HighlightsOf(highlights, turn.target) # {}

\* C5 as stated: a turn sent without conversation_id is persisted into the
\* user's active conversation, the existing one or a newly created one, and the
\* conversation_id returned names the conversation that received the turn
C5_TurnPersistedToActive ==
    pc = "trigger_highlights" /\ turn.input_id = None /\ turn.persist = "committed"
        => /\ turn.target \in 1..Len(conversations)
           /\ state.conversation_id = Str(turn.target)
           /\ LET row == conversations[turn.target]
                  n == Len(row.messages)
              IN  /\ row.user_id = ToInt(state.user_id)
                  /\ row.status = "active"
                  /\ n >= 2
                  /\ row.messages[n - 1].role = "user"
                  /\ row.messages[n - 1].content = state.user_message
                  /\ row.messages[n - 1].timestamp = clock
                  /\ row.messages[n].role = "assistant"
                  /\ row.messages[n].content = state.response

\* C6: under sequential execution no user has more than one active conversation
C6_AtMostOneActive ==
    \A u \in {ToInt(s) : s \in SpecUserIds} :
        Cardinality({c \in 1..Len(conversations) :
                        /\ conversations[c].user_id = u
                        /\ conversations[c].status = "active"}) <= 1

\* a user with a completed conversation and, after a later turn, an active one
C6_ActiveBesideCompleted ==
    \E c, d \in 1..Len(conversations) :
        /\ conversations[c].user_id = conversations[d].user_id
        /\ conversations[c].status = "completed"
        /\ conversations[d].status = "active"

\* C7: no operation moves a completed conversation back to active
C7_CompletedIsTerminal ==
    [][\A c \in 1..Len(conversations) :
            conversations[c].status = "completed"
                => /\ c \in 1..Len(conversations')
                   /\ conversations'[c].status = "completed"]_vars

\* a turn was committed to a conversation that is completed
C7_TurnOnCompleted ==
    /\ turn.persist = "committed"
    /\ turn.target \in 1..Len(conversations)
    /\ conversations[turn.target].status = "completed"
    /\ turn.input_id = Str(turn.target)

\* C8: the loop stops when the last user message, trimmed and lowercased, is
\* bye or goodbye, stops when ten turns have accumulated, and otherwise
\* continues (a conversation of three turns ending in another message goes on)
C8_ContinueOrStop ==
    stop # None =>
        LET n == Len(transcript)
            last == transcript[n - 1].content
        IN  /\ last \in {" Bye ", "GOODBYE"} => stop = "stop"
            /\ n >= TurnCap => stop = "stop"
            /\ n < TurnCap /\ last \in {"Goodbye for now", "I am allergic to dairy"}
                    => stop = "continue"
            /\ n = 3 /\ last = "I am allergic to dairy" => stop = "continue"

\* the loop stopped on the cap, its tenth turn answering an ordinary message
C8_StoppedAtCap ==
    /\ Len(transcript) = TurnCap
    /\ stop = "stop"
    /\ transcript[TurnCap - 1].content = "I am allergic to dairy"

\* C9: a conversation has at most one Highlight, and once it has one the
\* eligibility gate is false for it
C9_IdempotentExtraction ==
    \A c \in 1..Len(conversations) :
        LET of_c == {h \in 1..Len(highlights) : highlights[h].conversation_id = c}
        IN  /\ Cardinality(of_c) <= 1
            /\ of_c # {} => ~should_extract_highlights(conversations, highlights, c)

\* end_conversation succeeded on a conversation whose Highlight was extracted
\* by an earlier call
C9_EndedAfterExtraction ==
    /\ end_result # NoEnd
    /\ end_result.returned = "True"
    /\ \E h \in 1..Len(highlights) :
            /\ Str(highlights[h].conversation_id) = end_result.conversation_id
            /\ highlights[h].extracted_at < clock

\* C10: the keys of the structured_data of every stored Highlight are names of
\* the closed vocabulary, whatever text the extraction model returned
C10_FieldClosure ==
    \A h \in 1..Len(highlights) :
        /\ highlights[h].structured_data.t = "dict"
        /\ DOMAIN highlights[h].structured_data.v \subseteq STRUCTURED_FIELDS

\* a Highlight whose structured_data holds a key was stored
C10_StoredWithKeys ==
    \E h \in 1..Len(highlights) :
        /\ highlights[h].structured_data.t = "dict"
        /\ DOMAIN highlights[h].structured_data.v # {}

\* C11: for every user and every schema field, get_user_highlights_summary
\* reports the value the field has in the user's most recently extracted
\* Highlight in which it is not null, and omits the field when it is null or
\* absent in all of the user's Highlights
C11_RecencyWins ==
    ctx_out.op = "get_user_highlights_summary" =>
        LET hls == layers.highlights
            got == ctx_out.value.structured_data
        IN  \A f \in STRUCTURED_FIELDS :
                LET holders == {h \in 1..Len(hls) :
                                    /\ hls[h].user_id = ctx_out.user_id
                                    /\ hls[h].structured_data.t = "dict"
                                    /\ f \in DOMAIN hls[h].structured_data.v
                                    /\ hls[h].structured_data.v[f] # None}
                IN  IF holders = {} THEN f \notin DOMAIN got
                    ELSE /\ f \in DOMAIN got
                         /\ \E h \in holders :
                              /\ \A g \in holders :
                                    hls[g].extracted_at <= hls[h].extracted_at
                              /\ got[f] = hls[h].structured_data.v[f]

\* a summary that reports allergies dairy of an older Highlight while the
\* user's latest Highlight holds allergies null
C11_OlderValueBehindNull ==
    /\ ctx_out.op = "get_user_highlights_summary"
    /\ "allergies" \in DOMAIN ctx_out.value.structured_data
    /\ ctx_out.value.structured_data["allergies"] = "dairy"
    /\ \E a, b \in 1..Len(layers.highlights) :
        LET hls == layers.highlights
        IN  /\ hls[a].user_id = ctx_out.user_id
            /\ hls[b].user_id = ctx_out.user_id
            /\ hls[a].extracted_at < hls[b].extracted_at
            /\ hls[a].structured_data = JDict([allergies |-> "dairy"])
            /\ hls[b].structured_data =
                    JDict([allergies |-> None, goals_mentioned |-> "run 5k"])
            /\ ctx_out.value.last_updated = hls[b].extracted_at

\* C12 as stated: end_conversation on an existing conversation completes it,
\* stamps its end time and analyses the transcript in a final pass whatever
\* the eligibility gate says and whether or not a Highlight exists
C12_UnconditionalFinalPass ==
    end_result.returned = "True" =>
        LET c == ToInt(end_result.conversation_id)
        IN  /\ conversations[c].status = "completed"
            /\ conversations[c].ended_at = clock
            /\ end_result.analysed

\* C13 as stated: when the load of one of the insights, highlights, external
\* context and knowledge layers fails, assemble_full_context returns a context
\* in which that layer is empty and every other layer holds the value it has
\* without the failure
C13_PerLayerFaultTolerance ==
    ctx_out.op = "assemble_full_context" /\ Cardinality(ctx_out.failed) = 1 =>
        LET got == ctx_out.value
            full == assemble_full_context(layers, ctx_out.user_id, {})
        IN  /\ ~got.raised
            /\ got.raw_data = full.raw_data
            /\ got.user_preferences = full.user_preferences
            /\ got.insights =
                 IF "insights" \in ctx_out.failed THEN <<>> ELSE full.insights
            /\ got.highlights =
                 IF "highlights" \in ctx_out.failed THEN EmptyDict
                 ELSE full.highlights
            /\ got.external_data =
                 IF "external_data" \in ctx_out.failed THEN EmptyDict
                 ELSE full.external_data
            /\ got.knowledge =
                 IF "knowledge" \in ctx_out.failed THEN <<>> ELSE full.knowledge

\* C17 as stated: rendering the health-data section against a context whose
\* raw data is empty yields exactly the text "No recent health data available."
C17_FallbackTextAlone ==
    (/\ ctx_out.op = "health_data"
     /\ Get(ctx_out.context, "raw_data", EmptyDict) = EmptyDict)
        => ctx_out.value = <<"No recent health data available.">>

\* C17: rendering the health-data section against a context whose raw data is
\* empty yields exactly the heading line "CURRENT HEALTH DATA:" followed by the
\* line "No recent health data available."
C17_HeadingThenFallback ==
    (/\ ctx_out.op = "health_data"
     /\ Get(ctx_out.context, "raw_data", EmptyDict) = EmptyDict)
        => ctx_out.value =
                <<"CURRENT HEALTH DATA:", "No recent health data available.">>

\* the section was rendered against the context assembled for a user that is
\* not stored, whose raw data is the empty dict
C17_RenderedOnEmptyRawData ==
    /\ ctx_out.op = "health_data"
    /\ "raw_data" \in DOMAIN ctx_out.context
    /\ ctx_out.context.raw_data = EmptyDict
    /\ ctx_out.context.user_id = 2
    /\ Len(ctx_out.value) = 2

\* C14 as stated: a chat turn that resumes a conversation holding k stored
\* turns sends the model those k turns, oldest first, followed by the new user
\* message, also when the caller passes only the conversation id
C14_FullHistorySent ==
    pc = "update_conversation" =>
        LET given == turn.input_id
            active == {c \in 1..Len(conversations) :
                          /\ Str(conversations[c].user_id) = state.user_id
                          /\ conversations[c].status = "active"}
            resumed == IF given # None
                       THEN {c \in 1..Len(conversations) : Str(c) = given}
                       ELSE active
        IN  \A c \in resumed :
                LET stored == conversations[c].messages
                IN  stored # <<>> =>
                        turn.sent =
                            [i \in 1..Len(stored) |->
                                [role |-> stored[i].role,
                                 content |-> stored[i].content]]
                            \o <<[role |-> "user", content |-> state.user_message]>>

\* C15: highlight extraction never changes the result of a chat turn: the
\* trigger step always ends the workflow normally and leaves the workflow
\* state and the stored conversations as the persist step left them, and chat
\* returns the response, conversation_id and error of that state
C15_ExtractionNeverChangesResult ==
    /\ [][pc = "trigger_highlights"
            => /\ pc' = "END"
               /\ state' = state
               /\ conversations' = conversations]_vars
    /\ [][pc = "END"
            => /\ result'.response = state.response
               /\ result'.conversation_id = state.conversation_id
               /\ result'.error = state.error]_vars

\* a turn returned its generated response without error after its extraction
\* called the model and stored no Highlight
C15_ReturnedAfterFailedExtraction ==
    /\ turn.returned
    /\ turn.called /\ turn.llm
    /\ turn.target \in 1..Len(conversations)
    /\ \A h \in 1..Len(highlights) : highlights[h].conversation_id # turn.target
    /\ conversations[turn.target].messages # <<>>
    /\ result.response \in ModelTexts
    /\ result.conversation_id = Str(turn.target)
    /\ result.error = None

\* C16: for every conversation_history and user_message the client sends the
\* provider the history in its given order followed by exactly one final turn
\* with role user and content user_message; the system prompt, when present,
\* travels in a field of its own and never as an element of that sequence
C16_HistoryThenUserMessage ==
    ctx_out.op = "chat" =>
        LET sent == ctx_out.value.sent
            history == ctx_out.conversation_history
        IN  /\ Len(sent.messages) = Len(history) + 1
            /\ SubSeq(sent.messages, 1, Len(history)) = history
            /\ sent.messages[Len(sent.messages)] =
                    [role |-> "user", content |-> ctx_out.user_message]
            /\ \A i \in 1..Len(sent.messages) : sent.messages[i].role # "system"
            /\ sent.system = IF ctx_out.system_prompt \in {None, ""}
                             THEN None ELSE ctx_out.system_prompt

\* a call with a history of two turns and a system prompt reached the provider
C16_SentHistoryAndSystem ==
    /\ ctx_out.op = "chat"
    /\ Len(ctx_out.conversation_history) = 2
    /\ ctx_out.system_prompt = FallbackPrompt
    /\ ctx_out.value.raised = None
    /\ Len(ctx_out.value.sent.messages) = 3

\* C18: nothing orders the lookup and the insert of concurrent turns: a turn
\* whose lookup found no active conversation inserts a new active conversation
\* of its user whatever has been committed since, so two concurrent first
\* turns of a user can leave two active conversations
C18_InsertAfterStaleLookup ==
    [][\A p \in RaceProcs :
            (/\ race[p].pc = "write"
             /\ race'[p].pc = "done"
             /\ race[p].found = 0)
                => /\ Len(conversations') = Len(conversations) + 1
                   /\ conversations'[Len(conversations')].user_id = race[p].user_id
                   /\ conversations'[Len(conversations')].status = "active"]_vars

\* both concurrent first turns of a user found no active conversation and the
\* store holds two active conversations of that user
C18_TwoActiveConversations ==
    /\ \A p \in RaceProcs : race[p].pc = "done" /\ race[p].found = 0
    /\ race[1].user_id = race[2].user_id
    /\ Len(conversations) = 2
    /\ \A c \in 1..2 : /\ conversations[c].user_id = race[1].user_id
                       /\ conversations[c].status = "active"

\* C19 as stated: when the model's answer to an extraction holds a structured
\* data key outside the vocabulary, process_conversation stores a Highlight for
\* the conversation whose structured data is empty and whose notes are ""
C19_RejectedStoredAsEmpty ==
    [][\A c \in 1..Len(conversations) :
          LET env == [db |-> "ok",
                      out |-> ExtractionText("",
                                  JDict([structured_data |-> SDUnknown,
                                         unstructured_notes |-> "Likes blue"]),
                                  "")]
          IN  (/\ should_extract_highlights(conversations, highlights, c)
               /\ ProcessConversation(c, env))
                  => \E h \in 1..Len(highlights') :
                        /\ highlights'[h].conversation_id = c
                        /\ highlights'[h].structured_data \in {JNull, JDict(EmptyDict)}
                        /\ highlights'[h].unstructured_notes = ""]_vars

\* C20 as stated: the turn is committed before the extraction starts, so when
\* the process dies after a persist step that committed, whether before or
\* during the extraction, the conversation the step wrote to holds the user
\* turn and the assistant turn of this call as its last two messages and the
\* stored Highlights are the ones from before the call's extraction
C20_CrashKeepsTurn ==
    [][(Crash /\ turn.persist = "committed") =>
          LET msgs == conversations'[turn.target].messages
              n == Len(msgs)
          IN  /\ pc = "trigger_highlights"
              /\ highlights' = highlights
              /\ n >= 2
              /\ msgs[n - 1] = [role |-> "user",
                                content |-> state.user_message,
                                timestamp |-> clock]
              /\ msgs[n] = [role |-> "assistant",
                            content |-> state.response,
                            timestamp |-> clock]]_vars

C22_TwoTurnsAppended ==
    [][((\E db \in DbOutcomes : UpdateConversation(db))
            /\ turn'.persist = "committed") =>
          LET t == turn'.target
              before == IF t <= Len(conversations)
                        THEN conversations[t].messages
                        ELSE <<>>
          IN  conversations'[t].messages =
                 before \o NewTurns(state.user_message, state.response, clock)]_vars

\* C23 as stated: build_system_prompt called twice with the same context and
\* the same section order returns the same prompt, also when the external
\* layer of the context is not empty
C23_SamePromptForSameContext ==
    (/\ ctx_out.op = "build_system_prompt"
     /\ ctx_out.before # <<>>)
        => \A b \in {ctx_out.before[1]} :
              (b.context = ctx_out.context /\ b.sections = ctx_out.sections)
                  => b.value = ctx_out.value

\* C24 as stated: after a chat call of either client, whether it returned or
\* raised, the conversation_history list of the caller holds the elements it
\* held before the call
C24_HistoryArgumentUnchanged ==
    ctx_out.op = "chat"
        => ctx_out.value.history_after = ctx_out.conversation_history

\* C25: no operation changes the stored messages of a conversation whose
\* status is completed, whichever conversation_id a later chat call passes
C25_CompletedMessagesFrozen ==
    [][\A c \in 1..Len(conversations) :
            conversations[c].status = "completed"
                => /\ c \in 1..Len(conversations')
                   /\ conversations'[c].messages = conversations[c].messages]_vars

\* a chat call that named a completed conversation returned without error and
\* with that conversation's id
C25_ReturnedFromCompleted ==
    /\ turn.returned
    /\ turn.persist = "committed"
    /\ turn.target \in 1..Len(conversations)
    /\ turn.input_id = Str(turn.target)
    /\ conversations[turn.target].status = "completed"
    /\ result.conversation_id = Str(turn.target)
    /\ result.error = None

\* C26 as stated: while a chat call of user u runs, every conversation and
\* every Highlight of another user stays as it is and no Highlight of another
\* user is added, also when the call names a conversation of that user
C26_OnlyOwnRowsWritten ==
    [][(pc \in WorkflowNodes /\ IsNumeric(state.user_id)) =>
          LET u == ToInt(state.user_id)
          IN  /\ \A c \in 1..Len(conversations) :
                    conversations[c].user_id # u
                        => conversations'[c] = conversations[c]
              /\ \A h \in 1..Len(highlights') :
                    highlights'[h].user_id # u
                        => /\ h <= Len(highlights)
                           /\ highlights[h] = highlights'[h]]_vars

\* C27: when a chat call carries a conversation_id that matches no stored
\* conversation, its persist step leaves the stored conversations as they are
\* and fails, its trigger step runs no extraction and stores no Highlight, and
\* the result holds the supplied id, the generated response and the error of
\* the persist step
C27_UnknownIdStoresNothing ==
    [][(/\ pc \in {"update_conversation", "trigger_highlights", "END"}
        /\ Truthy(state.conversation_id)
        /\ FindConversation(conversations,
                            IF IsNumeric(state.conversation_id)
                            THEN ToInt(state.conversation_id) ELSE 0) = 0)
          => /\ conversations' = conversations
             /\ highlights' = highlights
             /\ turn'.persist \in {"none", "failed"}
             /\ ~turn'.stored
             /\ turn'.created = 0
             /\ ~turn'.called
             /\ pc' = "idle" =>
                   /\ result'.conversation_id = state.conversation_id
                   /\ result'.response = turn.generated
                   /\ result'.error = "Failed to save conversation"]_vars

\* a call that named a conversation that does not exist returned, with other
\* conversations stored
C27_ReturnedUnknownId ==
    /\ turn.returned
    /\ Truthy(turn.input_id)
    /\ IsNumeric(turn.input_id)
    /\ conversations # <<>>
    /\ FindConversation(conversations, ToInt(turn.input_id)) = 0
    /\ turn.persist = "failed"
    /\ ~turn.model_failed
    /\ result.conversation_id = turn.input_id

\* C28: with one operation in flight at a time, no step of chat,
\* end_conversation, process_conversation or the batch job changes or removes
\* a stored Highlight: its structured_data, unstructured_notes and
\* extracted_at stay as they were stored
C28_StoredHighlightFrozen ==
    [][\A h \in 1..Len(highlights) :
            /\ h <= Len(highlights')
            /\ highlights'[h] = highlights[h]]_vars

\* a later chat turn called process_conversation on a conversation whose
\* Highlight was stored by an earlier call, and the model was not asked again
C28_LaterPassesOnExtracted ==
    /\ turn.returned
    /\ turn.called
    /\ ~turn.llm
    /\ \E h \in 1..Len(highlights) :
            /\ highlights[h].conversation_id = turn.target
            /\ highlights[h].extracted_at < clock

\* C29 as stated: also when two executions of process_conversation for the
\* same conversation interleave, the conversation has at most one Highlight
C29_OneHighlightUnderInterleaving ==
    \A c \in 1..Len(conversations) :
        Cardinality(HighlightsOf(highlights, c)) <= 1

\* C30 as stated: a call of end_conversation that returns False leaves the
\* status and the end time of every stored conversation as they were before
\* the call, and a call that returns True leaves the conversation completed
C30_FalseLeavesConversationAsItWas ==
    [][(\E c \in SpecConversationIds, db_ok \in BOOLEAN, init_ok \in BOOLEAN,
           env \in SpecEnvs : EndConversation(c, db_ok, init_ok, env)) =>
          /\ end_result'.returned = "False" =>
                \A c \in 1..Len(conversations) :
                    /\ conversations'[c].status = conversations[c].status
                    /\ conversations'[c].ended_at = conversations[c].ended_at
          /\ end_result'.returned = "True" =>
                conversations'[ToInt(end_result'.conversation_id)].status
                    = "completed"]_vars
====
